---- MODULE Spec2Model ----
(***************************************************************************)
(* A model of the lznint codec (src/src/lib.rs, compress.rs,               *)
(* decompress.rs): the block model, the wire codec, the greedy compressor  *)
(* and the decompressor.  Bytes are naturals in 0..255, a byte slice is a  *)
(* sequence, and slices are indexed from 0 through At.                     *)
(*                                                                         *)
(* TLC evaluates a recursive operator on the Java stack, which holds a few *)
(* hundred nested calls; the source's loops run up to MAX_LEN and more     *)
(* times.  Each such loop over lo..hi-1 is therefore written as the loop   *)
(* over lo..mid-1 followed by the loop over mid..hi-1: the same iterations *)
(* in the same order, nested only logarithmically.                         *)
(***************************************************************************)
EXTENDS Naturals, Sequences, FiniteSets

VARIABLES
    pc,         \* "compress": in compress's while loop; "decompress": in
                \* decompress's loop; "header": a block waits to be serialized;
                \* "parse": its bytes wait to be parsed; "done": the call is over
    src,        \* compress: the argument
    i,          \* compress: the position in src
    prev_copy,  \* compress: the pending literals
    dst,        \* compress: the output written so far
    cres,       \* compress: "running", "returned" (dst is the result) or "panicked"
    last,       \* compress: what the latest loop iteration (or the epilogue) did
    input,      \* decompress: the argument
    dsrc,       \* decompress: the slice still to be read (`src` in decompress)
    out,        \* decompress: the output buffer (`dst` in decompress)
    ret,        \* decompress: the returned value, tag "Running" until it returns
    dlast,      \* decompress: the block the latest loop iteration parsed
    block,      \* wire codec: the block handed to Command::write
    wire        \* wire codec: what write produced and what the header parse read

vars == <<pc, src, i, prev_copy, dst, cres, last, input, dsrc, out, ret, dlast,
          block, wire>>

---------------------------------------------------------------------------
(* Program constants and bounds *)

MAX_LEN == 1024

MaxSrcLen == 7

MaxBlocks == 2

MaxRawLen == 4

---------------------------------------------------------------------------
(* Bytes and slices *)

At(s, k) == s[k + 1]

Min(a, b) == IF a <= b THEN a ELSE b

\* u16::from_le_bytes([a, b])
U16FromLe(a, b) == a + 256 * b

\* u16::to_le_bytes
U16ToLe(w) == <<w % 256, w \div 256>>

\* x ^ 0xFF on a byte
Xor255(x) == 255 - x

\* iter.take_while(P).count() over the indices lo..hi-1: the first index at
\* which P fails, or hi.  P is a function from indices to BOOLEAN.
RECURSIVE TakeWhile(_, _, _)
TakeWhile(P, lo, hi) ==
    IF lo >= hi THEN hi
    ELSE IF ~P[lo] THEN lo
    ELSE IF hi = lo + 1 THEN hi
    ELSE LET mid == (lo + 1 + hi) \div 2
             l == TakeWhile(P, lo + 1, mid)
         IN IF l < mid THEN l ELSE TakeWhile(P, mid, hi)

---------------------------------------------------------------------------
(* The block model: enum Command and enum Reference *)

NoRef == [kind |-> "None", at |-> 0]

Absolute(a) == [kind |-> "Absolute", at |-> a]

Relative(o) == [kind |-> "Relative", at |-> o]

Copy(buf) ==
    [kind |-> "Copy", buf |-> buf, data |-> 0, len |-> Len(buf),
     ref |-> NoRef, invert |-> FALSE]

ByteFill(data, len) ==
    [kind |-> "ByteFill", buf |-> <<>>, data |-> data, len |-> len,
     ref |-> NoRef, invert |-> FALSE]

WordFill(data, len) ==
    [kind |-> "WordFill", buf |-> <<>>, data |-> data, len |-> len,
     ref |-> NoRef, invert |-> FALSE]

Incrementing(start, len) ==
    [kind |-> "Incrementing", buf |-> <<>>, data |-> start, len |-> len,
     ref |-> NoRef, invert |-> FALSE]

Backreference(ref, invert, len) ==
    [kind |-> "Backreference", buf |-> <<>>, data |-> 0, len |-> len,
     ref |-> ref, invert |-> invert]

Stop ==
    [kind |-> "Stop", buf |-> <<>>, data |-> 0, len |-> 0,
     ref |-> NoRef, invert |-> FALSE]

\* Command::len
CmdLen(c) ==
    CASE c.kind = "Copy" -> Len(c.buf)
      [] c.kind = "Stop" -> 0
      [] OTHER -> c.len

\* Command::cost
CmdCost(c) ==
    LET args ==
            CASE c.kind = "Copy" -> Len(c.buf)
              [] c.kind = "ByteFill" -> 1
              [] c.kind = "WordFill" -> 2
              [] c.kind = "Incrementing" -> 2
              [] c.kind = "Backreference" /\ c.ref.kind = "Relative" -> 3
              [] c.kind = "Backreference" -> 4
              [] OTHER -> 0
    IN IF CmdLen(c) <= 32 THEN args + 1 ELSE args + 2

---------------------------------------------------------------------------
(* The serializer: Command::write and its inner _write.  A failed          *)
(* assertion (or the underflow of len - 1) is the outcome ok = FALSE.      *)

\* Mutant: the short form chosen on the length alone.
WriteHeaderShortFormAnyCmd(cmd, len) == len < 32

WriteHeaderShortForm(cmd, len) == len < 32 /\ cmd # 7

\* _write(cmd, len, data, dst); `n` is the source's shadowed len = len - 1.
\* The header bytes are ORs of disjoint bit fields (cmd < 8, n < 32 in the
\* short form, n >> 8 < 4 in the long form), written here as sums.
WriteBlock(cmd, len, data, d) ==
    IF len = 0 THEN [ok |-> FALSE, dst |-> d]
    ELSE LET n == len - 1 IN
         IF WriteHeaderShortForm(cmd, n)
         THEN [ok |-> TRUE, dst |-> d \o <<((cmd * 32) % 256) + n>> \o data]
         ELSE IF ~(n < MAX_LEN) THEN [ok |-> FALSE, dst |-> d]
         ELSE [ok |-> TRUE,
               dst |-> d \o <<224 + (cmd * 4) + (n \div 256), n % 256>> \o data]

\* `invert as u8`
BoolAsU8(b) == IF b THEN 1 ELSE 0

\* Mutant: Stop serialized through _write as command 7 of length 32, which
\* _write refuses to put in the short form.
CmdWriteStopAsBlock(c, d) ==
    CASE c.kind = "Copy" -> WriteBlock(0, CmdLen(c), c.buf, d)
      [] c.kind = "ByteFill" -> WriteBlock(1, c.len, <<c.data>>, d)
      [] c.kind = "WordFill" -> WriteBlock(2, c.len, U16ToLe(c.data), d)
      [] c.kind = "Incrementing" -> WriteBlock(3, c.len, <<c.data>>, d)
      [] c.kind = "Backreference" /\ c.ref.kind = "Absolute" ->
            WriteBlock(4 + BoolAsU8(c.invert), c.len, U16ToLe(c.ref.at), d)
      [] c.kind = "Backreference" ->
            IF c.ref.at = 0 THEN [ok |-> FALSE, dst |-> d]
            ELSE IF c.invert /\ ~(c.len <= 768) THEN [ok |-> FALSE, dst |-> d]
            ELSE WriteBlock(6 + BoolAsU8(c.invert), c.len, <<c.ref.at>>, d)
      [] OTHER -> WriteBlock(7, 32, <<>>, d)

\* Command::write
CmdWrite(c, d) ==
    CASE c.kind = "Copy" -> WriteBlock(0, CmdLen(c), c.buf, d)
      [] c.kind = "ByteFill" -> WriteBlock(1, c.len, <<c.data>>, d)
      [] c.kind = "WordFill" -> WriteBlock(2, c.len, U16ToLe(c.data), d)
      [] c.kind = "Incrementing" -> WriteBlock(3, c.len, <<c.data>>, d)
      [] c.kind = "Backreference" /\ c.ref.kind = "Absolute" ->
            WriteBlock(4 + BoolAsU8(c.invert), c.len, U16ToLe(c.ref.at), d)
      [] c.kind = "Backreference" ->
            IF c.ref.at = 0 THEN [ok |-> FALSE, dst |-> d]
            ELSE IF c.invert /\ ~(c.len <= 768) THEN [ok |-> FALSE, dst |-> d]
            ELSE WriteBlock(6 + BoolAsU8(c.invert), c.len, <<c.ref.at>>, d)
      [] OTHER -> [ok |-> TRUE, dst |-> Append(d, 255)]

---------------------------------------------------------------------------
(* The compressor's search *)

\* backreference_at: the (inv, len) pair, inv never set.
BackreferenceAt(s, p, j) ==
    LET n == Len(s) - p
        len == TakeWhile([k \in 0..(n - 1) |-> At(s, p + k) = At(s, j + k)], 0, n)
    IN <<FALSE, Min(len, MAX_LEN)>>

\* The body of find_best_backreference's first loop; best is (j, inv, len).
RelativeBody(s, p, j, best) ==
    LET m == BackreferenceAt(s, p, j)
        inv == m[1]
        len == IF inv THEN Min(m[2], 768) ELSE m[2]
    IN IF len > best[3] \/ (len = best[3] /\ ~inv /\ best[2])
       THEN <<j, inv, len>> ELSE best

\* for j in lo..hi of the first loop.  A best length never decreases; the
\* comparison makes the first half run before the second.
RECURSIVE RelativeLoop(_, _, _, _, _)
RelativeLoop(s, p, lo, hi, best) ==
    IF lo >= hi THEN best
    ELSE IF hi = lo + 1 THEN RelativeBody(s, p, lo, best)
    ELSE LET mid == (lo + hi) \div 2
             first == RelativeLoop(s, p, lo, mid, best)
         IN IF first[3] >= best[3] THEN RelativeLoop(s, p, mid, hi, first)
            ELSE first

\* The body of the second loop.
AbsoluteBody(s, p, j, best) ==
    LET m == BackreferenceAt(s, p, j)
    IN IF m[2] > best[3] THEN <<j, m[1], m[2]>> ELSE best

RECURSIVE AbsoluteLoop(_, _, _, _, _)
AbsoluteLoop(s, p, lo, hi, best) ==
    IF lo >= hi THEN best
    ELSE IF hi = lo + 1 THEN AbsoluteBody(s, p, lo, best)
    ELSE LET mid == (lo + hi) \div 2
             first == AbsoluteLoop(s, p, lo, mid, best)
         IN IF first[3] >= best[3] THEN AbsoluteLoop(s, p, mid, hi, first)
            ELSE first

\* find_best_backreference: <<>> for None, <<cmd>> for Some(cmd).
FindBestBackreference(s, p) ==
    LET farthest_relative == p - Min(p, 255)
        best_relative == RelativeLoop(s, p, farthest_relative, p, <<0, FALSE, 0>>)
        best_absolute ==
            AbsoluteLoop(s, p, 0, Min(farthest_relative, 65535 + 1), <<0, FALSE, 0>>)
    IN IF best_relative[3] = 0 /\ best_absolute[3] = 0 THEN <<>>
       ELSE IF best_relative[3] >= best_absolute[3]
       THEN <<Backreference(Relative(p - best_relative[1]), best_relative[2],
                            best_relative[3])>>
       ELSE <<Backreference(Absolute(best_absolute[1]), best_absolute[2],
                            best_absolute[3])>>

\* The WordFill candidate's length in get_candidates, before the cap.
WordFillRun(s, p) ==
    LET word == U16FromLe(At(s, p), At(s, p + 1))
        chunks == (Len(s) - p) \div 2
        len == 2 * TakeWhile([c \in 0..(chunks - 1) |->
                                U16FromLe(At(s, p + 2 * c),
                                          At(s, p + 2 * c + 1)) = word],
                             0, chunks)
    IN IF p + len < Len(s) /\ At(s, p + len) = word % 256 THEN len + 1 ELSE len

ByteFillRun(s, p) ==
    TakeWhile([k \in 0..(Len(s) - p - 1) |-> At(s, p + k) = At(s, p)],
              0, Len(s) - p)

IncrementingRun(s, p) ==
    TakeWhile([k \in 0..(Len(s) - p - 1) |->
                 At(s, p + k) = (At(s, p) + k) % 256],
              0, Len(s) - p)

\* get_candidates
GetCandidates(s, p) ==
    LET word == IF Len(s) - p >= 2
                THEN <<WordFill(U16FromLe(At(s, p), At(s, p + 1)),
                                Min(WordFillRun(s, p), MAX_LEN))>>
                ELSE <<>>
    IN IF word # <<>> /\ word[1].len = MAX_LEN THEN word
       ELSE word
            \o <<ByteFill(At(s, p), Min(ByteFillRun(s, p), MAX_LEN))>>
            \o <<Incrementing(At(s, p), Min(IncrementingRun(s, p), MAX_LEN))>>
            \o FindBestBackreference(s, p)

\* a.len / a.cost compared with b.len / b.cost.  The source divides in f32;
\* with lengths up to MAX_LEN and costs up to 6 two different quotients are
\* further apart than f32 rounds, so the exact comparison decides the same.
RatioLess(a, b) == CmdLen(a) * CmdCost(b) < CmdLen(b) * CmdCost(a)

\* max_by over the reversed candidates keeps the last maximum, which is the
\* earliest candidate of the original order among the maxima.
MaxByRatio(cands) ==
    cands[CHOOSE k \in 1..Len(cands) :
            /\ \A m \in 1..Len(cands) : ~RatioLess(cands[k], cands[m])
            /\ \A m \in 1..(k - 1) : RatioLess(cands[m], cands[k])]

\* find_best
FindBest(s, p) == MaxByRatio(GetCandidates(s, p))

\* The test of compress's if: the block is worth emitting.
Worthwhile(best) == CmdLen(best) >= CmdCost(best) + 3

---------------------------------------------------------------------------
(* compress: one iteration of its while loop, and its epilogue *)

NoStep == [step |-> "none", at |-> 0, best |-> Stop, emitted |-> FALSE,
           writes |-> <<>>]

\* `if !prev_copy.is_empty() { Command::Copy(&prev_copy[..]).write(&mut dst) }`
\* writes lists the blocks handed to write.
FlushPending(pending, d) ==
    IF pending # <<>>
    THEN LET w == CmdWrite(Copy(pending), d)
         IN [ok |-> w.ok, dst |-> w.dst, writes |-> <<Copy(pending)>>]
    ELSE [ok |-> TRUE, dst |-> d, writes |-> <<>>]

\* The then-branch of the loop: flush the literals, write best.
EmitBest(best, pending, d) ==
    LET f == FlushPending(pending, d)
    IN IF ~f.ok THEN f
       ELSE LET w == CmdWrite(best, f.dst)
            IN [ok |-> w.ok, dst |-> w.dst, writes |-> Append(f.writes, best)]

\* The then-branch once the writes are done: e is their outcome, and a
\* failed assertion ends the call.
EmitStep(best, e) ==
    /\ last' = [step |-> "loop", at |-> i, best |-> best, emitted |-> TRUE,
                writes |-> e.writes]
    /\ IF e.ok
       THEN /\ dst' = e.dst
            /\ prev_copy' = <<>>
            /\ i' = i + CmdLen(best)
            /\ UNCHANGED <<pc, cres>>
       ELSE /\ cres' = "panicked"
            /\ pc' = "done"
            /\ UNCHANGED <<dst, prev_copy, i>>

\* The body of the while loop, best being find_best(src, i).
LoopBody(best) ==
    IF Worthwhile(best)
    THEN /\ EmitStep(best, EmitBest(best, prev_copy, dst))
    ELSE /\ prev_copy' = Append(prev_copy, At(src, i))
         /\ i' = i + 1
         /\ last' = [step |-> "loop", at |-> i, best |-> best,
                     emitted |-> FALSE, writes |-> <<>>]
         /\ UNCHANGED <<pc, cres, dst>>

CompressStep ==
    /\ pc = "compress"
    /\ i < Len(src)
    /\ LoopBody(FindBest(src, i))
    /\ UNCHANGED <<src, input, dsrc, out, ret, dlast, block, wire>>

\* After the loop: flush, write Stop, return dst.  The returned stream is
\* then handed to decompress, as the repository's round-trip test does.
Epilogue(f) ==
    /\ last' = [step |-> "epilogue", at |-> i, best |-> Stop, emitted |-> FALSE,
                writes |-> IF f.ok THEN Append(f.writes, Stop) ELSE f.writes]
    /\ IF f.ok
       THEN /\ dst' = CmdWrite(Stop, f.dst).dst
            /\ cres' = "returned"
            /\ pc' = "decompress"
            /\ input' = dst'
            /\ dsrc' = dst'
       ELSE /\ cres' = "panicked"
            /\ pc' = "done"
            /\ UNCHANGED <<dst, input, dsrc>>

CompressReturn ==
    /\ pc = "compress"
    /\ i >= Len(src)
    /\ Epilogue(FlushPending(prev_copy, dst))
    /\ UNCHANGED <<src, i, prev_copy, out, ret, dlast, block, wire>>

---------------------------------------------------------------------------
(* The parser: read_byte, read_word, read_cmd *)

\* Mutant: the end of the input read as a Stop byte.
ReadByteStopAtEnd(s) ==
    IF s # <<>> THEN [ok |-> TRUE, val |-> s[1], rest |-> Tail(s)]
    ELSE [ok |-> TRUE, val |-> 255, rest |-> s]

\* read_byte
ReadByte(s) ==
    IF s # <<>> THEN [ok |-> TRUE, val |-> s[1], rest |-> Tail(s)]
    ELSE [ok |-> FALSE, val |-> 0, rest |-> s]

\* read_word
ReadWord(s) ==
    LET a == ReadByte(s)
        b == ReadByte(a.rest)
    IN IF ~a.ok THEN a
       ELSE IF ~b.ok THEN b
       ELSE [ok |-> TRUE, val |-> U16FromLe(a.val, b.val), rest |-> b.rest]

\* read_cmd up to `let len = len + 1`: the header.  tag is "Stop", "Ok" or
\* "UnexpectedEof"; cmd & 0x1f, cmd >> 5, len >> 2 and ((len & 3) << 8) | next
\* are written arithmetically.
ReadHeader(s) ==
    LET h == ReadByte(s)
        len0 == h.val % 32
        cmd0 == h.val \div 32
        n == ReadByte(h.rest)
    IN IF ~h.ok THEN [tag |-> "UnexpectedEof", cmd |-> 0, len |-> 0, rest |-> s]
       ELSE IF h.val = 255 THEN [tag |-> "Stop", cmd |-> 0, len |-> 0, rest |-> h.rest]
       ELSE IF cmd0 = 7
       THEN IF ~n.ok
            THEN [tag |-> "UnexpectedEof", cmd |-> 0, len |-> 0, rest |-> h.rest]
            ELSE [tag |-> "Ok", cmd |-> len0 \div 4,
                  len |-> (len0 % 4) * 256 + n.val + 1, rest |-> n.rest]
       ELSE [tag |-> "Ok", cmd |-> cmd0, len |-> len0 + 1, rest |-> h.rest]

\* slice.split_at(n), which panics when n > len
SplitAt(s, n) ==
    IF n > Len(s) THEN [ok |-> FALSE, head |-> <<>>, tail |-> s]
    ELSE [ok |-> TRUE, head |-> SubSeq(s, 1, n), tail |-> SubSeq(s, n + 1, Len(s))]

\* Mutant: the guard off by one.
CopyTruncatedOffByOne(len, s) == len > Len(s) + 1

\* The guard of read_cmd's Copy arm
CopyTruncated(len, s) == len > Len(s)

\* Err(DecompressionError::UnexpectedEof), with what is left of *src
Eof(s) == [tag |-> "UnexpectedEof", cmd |-> Stop, rest |-> s]

\* read_cmd: tag is "Ok", "UnexpectedEof" or "Panic" (split_at past the end,
\* or the unreachable arm).  rest is *src as the call leaves it: on
\* UnexpectedEof every byte read_byte took before the failing read is gone.
ReadCmd(s) ==
    LET h == ReadHeader(s)
        r == h.rest
        b == ReadByte(r)
        w == ReadWord(r)
    IN CASE h.tag = "UnexpectedEof" -> Eof(r)
         [] h.tag = "Stop" -> [tag |-> "Ok", cmd |-> Stop, rest |-> r]
         [] h.cmd = 0 ->
               IF CopyTruncated(h.len, r) THEN Eof(r)
               ELSE LET p == SplitAt(r, h.len)
                    IN IF p.ok THEN [tag |-> "Ok", cmd |-> Copy(p.head), rest |-> p.tail]
                       ELSE [tag |-> "Panic", cmd |-> Stop, rest |-> r]
         [] h.cmd = 1 ->
               IF b.ok THEN [tag |-> "Ok", cmd |-> ByteFill(b.val, h.len), rest |-> b.rest]
               ELSE Eof(b.rest)
         [] h.cmd = 2 ->
               IF w.ok THEN [tag |-> "Ok", cmd |-> WordFill(w.val, h.len), rest |-> w.rest]
               ELSE Eof(w.rest)
         [] h.cmd = 3 ->
               IF b.ok
               THEN [tag |-> "Ok", cmd |-> Incrementing(b.val, h.len), rest |-> b.rest]
               ELSE Eof(b.rest)
         [] h.cmd \in 4..7 ->
               LET invert == (h.cmd % 2) # 0
               IN IF h.cmd < 6
                  THEN IF w.ok
                       THEN [tag |-> "Ok",
                             cmd |-> Backreference(Absolute(w.val), invert, h.len),
                             rest |-> w.rest]
                       ELSE Eof(w.rest)
                  ELSE IF b.ok
                       THEN [tag |-> "Ok",
                             cmd |-> Backreference(Relative(b.val), invert, h.len),
                             rest |-> b.rest]
                       ELSE Eof(b.rest)
         [] OTHER -> [tag |-> "Panic", cmd |-> Stop, rest |-> r]

---------------------------------------------------------------------------
(* decompress: applying one block *)

\* The start of a back-reference: ok = FALSE is the early
\* Err(WindowOutOfRange) of the Relative arm.
ResolveStart(ref, n) ==
    IF ref.kind = "Absolute" THEN [ok |-> TRUE, start |-> ref.at]
    ELSE IF ref.at <= n THEN [ok |-> TRUE, start |-> n - ref.at]
    ELSE [ok |-> FALSE, start |-> 0]

\* Mutant: the check off by one.
StartOutOfRangeOffByOne(start, n) == start > n

\* `if start >= dst.len() { return Err(WindowOutOfRange) }`
StartOutOfRange(start, n) == start >= n

\* Mutant: the bytes taken from the window as it was before the copy,
\* wrapping around it, instead of from the output as it grows.
CopyByteFromWindow(st, start, k, invert) ==
    IF ~st.ok \/ start + k >= Len(st.buf) THEN [ok |-> FALSE, buf |-> st.buf]
    ELSE LET x == At(st.buf, start + (k % (Len(st.buf) - k - start)))
         IN [ok |-> TRUE, buf |-> Append(st.buf, IF invert THEN Xor255(x) ELSE x)]

\* One `dst.push(dst[start + i] ^ if invert { 0xFF } else { 0 })`;
\* ok = FALSE is the index out of bounds.
CopyByte(st, start, k, invert) ==
    IF ~st.ok \/ start + k >= Len(st.buf) THEN [ok |-> FALSE, buf |-> st.buf]
    ELSE LET x == At(st.buf, start + k)
         IN [ok |-> TRUE, buf |-> Append(st.buf, IF invert THEN Xor255(x) ELSE x)]

\* `for i in lo..hi { dst.push(...) }`; a panic ends the loop.
RECURSIVE CopyLoop(_, _, _, _, _)
CopyLoop(st, start, lo, hi, invert) ==
    IF lo >= hi THEN st
    ELSE IF hi = lo + 1 THEN CopyByte(st, start, lo, invert)
    ELSE LET mid == (lo + hi) \div 2
             first == CopyLoop(st, start, lo, mid, invert)
         IN IF first.ok THEN CopyLoop(first, start, mid, hi, invert) ELSE first

\* repeat(data).take(len)
ByteFillBytes(data, len) == [k \in 1..len |-> data]

\* repeat(data.to_le_bytes()).flatten().take(len)
WordFillBytes(data, len) == [k \in 1..len |-> U16ToLe(data)[2 - (k % 2)]]

\* successors(Some(start), |x| Some(x.wrapping_add(1))).take(len)
IncrementingBytes(start, len) == [k \in 1..len |-> (start + k - 1) % 256]

\* The match arms of decompress's loop: tag is "Continue", "Break",
\* "WindowOutOfRange" or "Panic".
Apply(c, d) ==
    CASE c.kind = "Copy" -> [tag |-> "Continue", buf |-> d \o c.buf]
      [] c.kind = "ByteFill" ->
            [tag |-> "Continue", buf |-> d \o ByteFillBytes(c.data, c.len)]
      [] c.kind = "WordFill" ->
            [tag |-> "Continue", buf |-> d \o WordFillBytes(c.data, c.len)]
      [] c.kind = "Incrementing" ->
            [tag |-> "Continue", buf |-> d \o IncrementingBytes(c.data, c.len)]
      [] c.kind = "Backreference" ->
            LET s == ResolveStart(c.ref, Len(d))
            IN IF ~s.ok \/ StartOutOfRange(s.start, Len(d))
               THEN [tag |-> "WindowOutOfRange", buf |-> d]
               ELSE LET r == CopyLoop([ok |-> TRUE, buf |-> d], s.start, 0, c.len,
                                      c.invert)
                    IN [tag |-> IF r.ok THEN "Continue" ELSE "Panic", buf |-> r.buf]
      [] OTHER -> [tag |-> "Break", buf |-> d]

Running == [tag |-> "Running", val |-> <<>>]

NoBlock == [parsed |-> FALSE, cmd |-> Stop, n |-> 0, before |-> 0, steps |-> 0]

\* The match of decompress's loop on a block that was read: a is what
\* applying it gave.
Match(a) ==
    /\ out' = a.buf
    /\ CASE a.tag = "Continue" -> /\ ret' = ret
                                  /\ pc' = pc
         [] a.tag = "Break" -> /\ ret' = [tag |-> "Ok", val |-> out]
                               /\ pc' = "done"
         [] OTHER -> /\ ret' = [tag |-> a.tag, val |-> <<>>]
                     /\ pc' = "done"

\* One iteration of decompress's loop, r being read_cmd(&mut src)'s
\* outcome.  dlast records the block read, the output length and the unread
\* input before it.
Iteration(r) ==
    /\ dlast' = [parsed |-> r.tag = "Ok", cmd |-> r.cmd, n |-> Len(out),
                 before |-> Len(dsrc), steps |-> dlast.steps + 1]
    /\ dsrc' = r.rest
    /\ IF r.tag # "Ok"
       THEN /\ ret' = [tag |-> r.tag, val |-> <<>>]
            /\ pc' = "done"
            /\ out' = out
       ELSE Match(Apply(r.cmd, out))

DecompressStep ==
    /\ pc = "decompress"
    /\ Iteration(ReadCmd(dsrc))
    /\ UNCHANGED <<src, i, prev_copy, dst, cres, last, input, block, wire>>

---------------------------------------------------------------------------
(* The wire codec alone: a block is serialized, its header parsed back *)

\* The command id Command::write hands to _write for each variant.
CmdId(c) ==
    CASE c.kind = "Copy" -> 0
      [] c.kind = "ByteFill" -> 1
      [] c.kind = "WordFill" -> 2
      [] c.kind = "Incrementing" -> 3
      [] c.kind = "Backreference" /\ c.ref.kind = "Absolute" -> 4 + BoolAsU8(c.invert)
      [] c.kind = "Backreference" -> 6 + BoolAsU8(c.invert)
      [] OTHER -> 7

NoWire == [ok |-> FALSE, bytes |-> <<>>, tag |-> "None", cmd |-> 0, len |-> 0]

WriteStep ==
    /\ pc = "header"
    /\ LET w == CmdWrite(block, <<>>)
       IN /\ wire' = [NoWire EXCEPT !.ok = w.ok, !.bytes = w.dst]
          /\ pc' = IF w.ok THEN "parse" ELSE "done"
    /\ UNCHANGED <<src, i, prev_copy, dst, cres, last, input, dsrc, out, ret,
                   dlast, block>>

ParseStep ==
    /\ pc = "parse"
    /\ LET h == ReadHeader(wire.bytes)
       IN wire' = [wire EXCEPT !.tag = h.tag, !.cmd = h.cmd, !.len = h.len]
    /\ pc' = "done"
    /\ UNCHANGED <<src, i, prev_copy, dst, cres, last, input, dsrc, out, ret,
                   dlast, block>>

---------------------------------------------------------------------------
(* Inputs *)

RECURSIVE SeqsUpTo(_, _)
SeqsUpTo(S, n) ==
    IF n = 0 THEN {<<>>}
    ELSE LET shorter == SeqsUpTo(S, n - 1)
         IN shorter \cup {Append(s, x) : s \in {t \in shorter : Len(t) = n - 1}, x \in S}

Repeat(pattern, n) == [k \in 1..n |-> pattern[((k - 1) % Len(pattern)) + 1]]

\* The 512-byte sequence of lib.rs's test_compress, continued with two more
\* byte pairs per step so that no run, word, increment or 7-byte repeat
\* occurs: no block is ever worthwhile.
Incompressible(n) ==
    [k \in 1..n |->
        LET m == (k - 1) \div 2
        IN IF (k - 1) % 2 = 0 THEN (3 * m + 1) % 256
           ELSE (3 * m + (m \div 256)) % 256]

SrcAlphabet == {1, 2, 254}

\* The inputs of lib.rs's test_compress.
TestVectors ==
    { <<0, 2, 4, 6>>, <<1, 1, 1, 1>>, <<1, 2, 1, 2, 1, 2>>, <<1, 2, 1, 2, 1>>,
      <<1, 2, 3, 4>>, <<1, 2, 3, 4, 1, 2, 3, 4, 1, 2, 3, 4>>,
      <<1, 2, 3, 4, 254, 253, 252, 251, 1, 2, 3, 4>>,
      Incompressible(MAX_LEN \div 2) \o Incompressible(MAX_LEN \div 2) }

LongInputs ==
    { Incompressible(MAX_LEN), Incompressible(MAX_LEN + 1),
      Repeat(<<0>>, MAX_LEN + 6),
      [k \in 1..(MAX_LEN + 6) |-> (k - 1) % 256],
      Repeat(<<1, 2, 254>>, MAX_LEN + 3),
      Incompressible(300) \o Repeat(<<7>>, 40) \o Incompressible(300) }

CompressInputs == SeqsUpTo(SrcAlphabet, MaxSrcLen) \cup TestVectors \cup LongInputs

\* Encoded blocks, well formed or not, that decompress may be given.
Frames ==
    { <<255>>,                    \* Stop
      <<1, 7, 9>>,                \* Copy, 2 bytes
      <<224, 0, 7>>,              \* Copy, long form, 1 byte
      <<34, 5>>,                  \* ByteFill, 3 bytes
      <<66, 1, 2>>,               \* WordFill, 3 bytes
      <<99, 254>>,                \* Incrementing, 4 bytes from 254
      <<132, 0, 0>>,              \* Absolute 0, 5 bytes
      <<163, 2, 0>>,              \* Absolute 2, inverted, 4 bytes
      <<128, 0, 1>>,              \* Absolute 256, 1 byte
      <<247, 255, 1, 0>>,         \* Absolute 1, inverted, long form, MAX_LEN bytes
      <<195, 0>>,                 \* Relative 0, 4 bytes
      <<195, 2>>,                 \* Relative 2, 4 bytes
      <<192, 4>>,                 \* Relative 4, 1 byte
      <<252, 7, 3>>,              \* Relative 3, inverted, long form, 8 bytes
      <<254, 255, 1>>,            \* Relative 1, inverted, long form, 0x300 bytes
      <<251, 255, 3>> }           \* Relative 3, long form, MAX_LEN bytes

RECURSIVE Flatten(_)
Flatten(ss) == IF ss = <<>> THEN <<>> ELSE ss[1] \o Flatten(Tail(ss))

Prefixes(s) == {SubSeq(s, 1, k) : k \in 0..Len(s)}

RawBytes == {0, 1, 34, 193, 228, 255}

DecodeInputs ==
    UNION {Prefixes(Flatten(fs) \o <<255>>) : fs \in SeqsUpTo(Frames, MaxBlocks)}
    \cup SeqsUpTo(RawBytes, MaxRawLen)

\* A block of command id c and length n.
BlockOf(c, n) ==
    CASE c = 0 -> Copy(Repeat(<<170>>, n))
      [] c = 1 -> ByteFill(170, n)
      [] c = 2 -> WordFill(U16FromLe(170, 85), n)
      [] c = 3 -> Incrementing(1, n)
      [] c \in {4, 5} -> Backreference(Absolute(0), c = 5, n)
      [] OTHER -> Backreference(Relative(1), c = 7, n)

---------------------------------------------------------------------------
(* Specifications *)

Idle ==
    /\ src = <<>> /\ i = 0 /\ prev_copy = <<>> /\ dst = <<>>
    /\ cres = "running" /\ last = NoStep

NoDecode ==
    /\ input = <<>> /\ dsrc = <<>> /\ out = <<>> /\ ret = Running /\ dlast = NoBlock

NoCodec == block = Stop /\ wire = NoWire

\* compress(x), then decompress of what it returned
InitCompress ==
    /\ pc = "compress"
    /\ src \in CompressInputs
    /\ i = 0 /\ prev_copy = <<>> /\ dst = <<>>
    /\ cres = "running" /\ last = NoStep
    /\ NoDecode /\ NoCodec

NextCompress == CompressStep \/ CompressReturn \/ DecompressStep

SpecCompress == InitCompress /\ [][NextCompress]_vars

\* decompress(y) on arbitrary bytes
InitDecompress ==
    /\ pc = "decompress"
    /\ input \in DecodeInputs
    /\ dsrc = input
    /\ out = <<>> /\ ret = Running /\ dlast = NoBlock
    /\ Idle /\ NoCodec

NextDecompress == DecompressStep

SpecDecompress == InitDecompress /\ [][NextDecompress]_vars

\* Command::write, then the header parse of read_cmd
InitCodec ==
    /\ pc = "header"
    /\ block \in {BlockOf(c, n) : c \in 0..7, n \in 1..MAX_LEN}
    /\ wire = NoWire
    /\ Idle /\ NoDecode

NextCodec == WriteStep \/ ParseStep

SpecCodec == InitCodec /\ [][NextCodec]_vars

---------------------------------------------------------------------------
(* Properties *)

Ok(bytes) == [tag |-> "Ok", val |-> bytes]

\* The number of input bytes decompress has consumed.
Consumed == Len(input) - Len(dsrc)

\* The bytes a block occupies once serialized: header plus payload.
EncodedSize(c) == Len(CmdWrite(c, <<>>).dst)

SetMax(S) == CHOOSE x \in S : \A y \in S : y <= x

\* C1: round trip.  Once the call sequence decompress(compress(src)) is
\* over, compress has returned and decompress has returned Ok(src).
C1_RoundTrip ==
    pc = "done" => cres = "returned" /\ ret = Ok(src)

\* C2: compress never fails.  No assertion of the serializer fires, the
\* empty input yields exactly [0xFF], and every block handed to write has
\* 1 <= L <= MAX_LEN, a non-zero Relative offset, and L <= 0x300 when it is
\* an inverted Relative block.
C2_CompressNeverFails ==
    /\ cres # "panicked"
    /\ (cres = "returned" /\ src = <<>>) => dst = <<255>>
    /\ \A k \in 1..Len(last.writes) :
          LET c == last.writes[k]
          IN c.kind # "Stop" =>
                /\ 1 <= CmdLen(c) /\ CmdLen(c) <= MAX_LEN
                /\ (c.kind = "Backreference" /\ c.ref.kind = "Relative") =>
                      /\ c.ref.at # 0
                      /\ c.invert => c.len <= 768

\* C3: Stop-terminated.  Whatever compress returns ends with 0xFF; no
\* non-Stop block the encoder wrote starts with 0xFF; parsed block by block,
\* a header 0xFF is met only as the final byte; and the decoder halts with Ok
\* having consumed the whole stream.
C3_StopTerminated ==
    /\ cres = "returned" => dst # <<>> /\ dst[Len(dst)] = 255
    /\ \A k \in 1..Len(last.writes) :
          last.writes[k].kind # "Stop" /\ cres # "panicked"
             => CmdWrite(last.writes[k], <<>>).dst[1] # 255
    /\ (pc = "decompress" /\ cres = "returned" /\ dsrc # <<>> /\ dsrc[1] = 255)
          => Len(dsrc) = 1
    /\ (pc = "decompress" /\ cres = "returned") => dsrc # <<>>
    /\ (pc = "done" /\ cres = "returned") => ret.tag = "Ok" /\ dsrc = <<>>

\* A returned stream whose second byte is 0xFF without being a header (the
\* length byte of a MAX_LEN Copy), decoded to its end.
C3_Witness ==
    /\ pc = "done" /\ cres = "returned" /\ ret.tag = "Ok"
    /\ Len(dst) > MAX_LEN /\ dst[1] = 227 /\ dst[2] = 255

\* The condition C4 gives for WindowOutOfRange, on a back-reference c met
\* with n bytes of output.
C4_OutOfRange(c, n) ==
    \/ c.ref.kind = "Relative" /\ c.ref.at > n
    \/ (IF c.ref.kind = "Absolute" THEN c.ref.at ELSE n - c.ref.at) >= n

\* C4: a Backreference block applied at output length n returns
\* WindowOutOfRange, and no output, iff it is Relative with o > n or its
\* resolved start is >= n; otherwise exactly L bytes are appended and the
\* loop goes on.
C4_WindowOutOfRange ==
    (dlast.parsed /\ dlast.cmd.kind = "Backreference") =>
        IF C4_OutOfRange(dlast.cmd, dlast.n)
        THEN pc = "done" /\ ret = [tag |-> "WindowOutOfRange", val |-> <<>>]
        ELSE pc = "decompress" /\ ret = Running
             /\ Len(out) = dlast.n + dlast.cmd.len

\* A Relative back-reference with offset 0 on a non-empty output.
C4_Witness ==
    /\ dlast.parsed /\ dlast.cmd.kind = "Backreference"
    /\ dlast.cmd.ref = Relative(0) /\ dlast.n > 0
    /\ ret.tag = "WindowOutOfRange"

\* C5: decompress returns Ok only right after reading a 0xFF header (the
\* Stop block); an input exhausted before that gives UnexpectedEof, with no
\* bytes returned, unless a back-reference gave WindowOutOfRange.
C5_UnexpectedEof ==
    /\ ret.tag = "Ok" =>
          /\ Consumed > 0 /\ input[Consumed] = 255
          /\ dlast.parsed /\ dlast.cmd = Stop /\ dlast.before = Len(dsrc) + 1
    /\ (pc = "done" /\ ret.tag \notin {"Ok", "WindowOutOfRange"}) =>
          /\ ret = [tag |-> "UnexpectedEof", val |-> <<>>]
          /\ ~dlast.parsed
    /\ (\A k \in 1..Len(input) : input[k] # 255) => ret.tag # "Ok"

\* An input cut inside a payload, after some output was made.
C5_Witness ==
    /\ pc = "done" /\ ret.tag = "UnexpectedEof"
    /\ out # <<>> /\ dsrc # <<>>

\* C6: overlap copy.  A back-reference applied at output length n from
\* start, with o = n - start, appends L bytes of which byte k is byte
\* k mod o of the last o bytes of the prior output, XORed with 0xFF once per
\* copy step it went through: k div o + 1 times when the invert flag is set.
C6_OverlapCopy ==
    (dlast.parsed /\ dlast.cmd.kind = "Backreference" /\ pc = "decompress") =>
        LET c == dlast.cmd
            n == dlast.n
            start == IF c.ref.kind = "Absolute" THEN c.ref.at ELSE n - c.ref.at
            o == n - start
        IN /\ Len(out) = n + c.len
           /\ \A k \in 0..(c.len - 1) :
                 LET x == At(out, start + (k % o))
                 IN At(out, n + k) =
                       IF c.invert /\ ((k \div o) % 2 = 0) THEN Xor255(x) ELSE x

\* An inverted back-reference of MAX_LEN bytes reaching over its own output.
C6_Witness ==
    /\ dlast.parsed /\ dlast.cmd.kind = "Backreference" /\ pc = "decompress"
    /\ dlast.cmd.invert /\ dlast.cmd.len = MAX_LEN
    /\ dlast.n < MAX_LEN \div 2

\* The payload bytes that follow the header of command id c.
C7_Payload(c, n) ==
    CASE c = 0 -> n
      [] c \in {2, 4, 5} -> 2
      [] OTHER -> 1

\* C7: bit-exact header.  For a block of command id c and length L (not
\* c = 7 with L > 0x300) write emits the one-byte header (c << 5) | (L-1) iff
\* L-1 < 32 and c # 7, otherwise 0xE0 | (c << 2) | ((L-1) >> 8), (L-1) & 0xFF,
\* and the header parse recovers c and L.
C7_BitExactHeader ==
    LET c == CmdId(block)
        n == CmdLen(block)
    IN (pc \in {"parse", "done"} /\ ~(c = 7 /\ n > 768)) =>
          /\ wire.ok
          /\ IF n - 1 < 32 /\ c # 7
             THEN /\ Len(wire.bytes) = 1 + C7_Payload(c, n)
                  /\ wire.bytes[1] = c * 32 + (n - 1)
             ELSE /\ Len(wire.bytes) = 2 + C7_Payload(c, n)
                  /\ wire.bytes[1] = 224 + c * 4 + ((n - 1) \div 256)
                  /\ wire.bytes[2] = (n - 1) % 256
          /\ pc = "done" => wire.tag = "Ok" /\ wire.cmd = c /\ wire.len = n

\* The longest inverted Relative block, written and parsed back.
C7_Witness ==
    /\ pc = "done" /\ CmdId(block) = 7 /\ CmdLen(block) = 768
    /\ wire.bytes[1] = 254 /\ wire.tag = "Ok"

\* C8: the driver emits best whenever L(best) >= C(best) + 2, C being the
\* encoded size, and so compresses the four inputs to the streams named.
C8_ThresholdTwo ==
    /\ (last.step = "loop" /\ CmdLen(last.best) >= EncodedSize(last.best) + 2)
          => last.emitted
    /\ (cres = "returned" /\ src = <<1, 1, 1, 1>>) => dst = <<35, 1, 255>>
    /\ (cres = "returned" /\ src = <<1, 2, 3, 4>>) => dst = <<99, 1, 255>>
    /\ (cres = "returned" /\ src = <<1, 2, 1, 2, 1>>) => dst = <<68, 1, 2, 255>>
    /\ (cres = "returned" /\ src = <<1, 2, 3, 4, 1, 2, 3, 4, 1, 2, 3, 4>>)
          => dst = <<99, 1, 199, 4, 255>>

\* The inverted match of C9 at position p against position j, capped.
C9_InvertedMatch(s, p, j) ==
    Min(TakeWhile([k \in 0..(Len(s) - p - 1) |->
                     At(s, p + k) = Xor255(At(s, j + k))],
                  0, Len(s) - p),
        768)

\* C9: at every position the search takes the longer of the plain and the
\* inverted match over the Relative region, so where an inverted match is
\* the longest the back-reference found is inverted and that long; and the
\* input of the repository's test gives the inverted long-form block.
C9_InvertedSearch ==
    /\ (last.step = "loop" /\ last.at > 0 /\ last.at <= 255) =>
          LET p == last.at
              inv == SetMax({C9_InvertedMatch(src, p, j) : j \in 0..(p - 1)})
              plain == SetMax({BackreferenceAt(src, p, j)[2] : j \in 0..(p - 1)})
              found == FindBestBackreference(src, p)
          IN inv > plain =>
                found # <<>> /\ found[1].invert /\ found[1].len = inv
    /\ (cres = "returned"
        /\ src = <<1, 2, 3, 4, 254, 253, 252, 251, 1, 2, 3, 4>>)
          => dst = <<99, 1, 252, 7, 4, 255>>

\* C10: decompress is total.  It never panics (no read of the output out of
\* bounds, no split past the end of the input, no unreachable arm); every
\* block parsed consumed at least one byte, so the loop runs at most once
\* per byte consumed and once more; the unread input is always a suffix of
\* the argument; and it has returned exactly when the loop is left, with Ok,
\* UnexpectedEof or WindowOutOfRange.
C10_Total ==
    /\ ret.tag \in {"Running", "Ok", "UnexpectedEof", "WindowOutOfRange"}
    /\ (pc = "done") <=> (ret.tag # "Running")
    /\ dlast.parsed => Len(dsrc) < dlast.before
    /\ dlast.steps <= Consumed + 1
    /\ Len(dsrc) <= Len(input)
    /\ dsrc = SubSeq(input, Consumed + 1, Len(input))
    /\ ret.tag # "Ok" => ret.val = <<>>

\* A malformed stream: output was produced, then a back-reference pointed
\* outside it, with input left unread.
C10_Witness ==
    /\ pc = "done" /\ ret.tag = "WindowOutOfRange"
    /\ dlast.steps > 1 /\ out # <<>> /\ dsrc # <<>>

====
